---- MODULE Spec2Model ----
(***************************************************************************)
(* Model of dynamic_chatbot.py: the Lex fulfilment backend of the          *)
(* reInvent bootcamp ordering bot.                                         *)
(*                                                                         *)
(* One invocation of lambda_handler is one action.  The state is the two   *)
(* DynamoDB tables (the product table is read only and therefore a         *)
(* definition, the order table is the variable orders), the event and the  *)
(* response of the invocation in progress, and the trace of the calls the  *)
(* invocation made.                                                        *)
(*                                                                         *)
(* Conventions.  A Python value that may be None is a tuple: None is <<>>  *)
(* and a present value v is <<v>>.  Product types and flavours are TLA+    *)
(* strings.  A quantity or a DynamoDB number is a Python string that gets  *)
(* parsed, so it is a sequence of one-character strings.  A message is a   *)
(* tuple of its template and the values formatted into it.                 *)
(*                                                                         *)
(* The store client is modelled as a total key/attribute store: a query    *)
(* returns the matching items and put_item stores the item.  Requests      *)
(* that the client library or the service would reject, and outages, are   *)
(* outside the model.  uuid.uuid4() is modelled as a generator of fresh    *)
(* identifiers.                                                            *)
(***************************************************************************)
EXTENDS Integers, Sequences, FiniteSets, TLC

VARIABLES
    orders,     \* the order table: a set of items, keyed by orderId
    drawn,      \* how many identifiers uuid4 has generated
    status,     \* "idle" | "returned" | "raised": the state of the invocation
    event,      \* the event of the invocation
    response,   \* what lambda_handler returned
    calls,      \* the handler, validator and store calls of the invocation
    qIn,        \* the argument of a stand-alone validate_order_quantity call
    qOut        \* its result

vars == <<orders, drawn, status, event, response, calls, qIn, qOut>>

----------------------------------------------------------------------------
(* Bounds *)

MaxOrders == 2

MaxQtyLen == 2

----------------------------------------------------------------------------
(* Python values *)

None == <<>>

Some(v) == <<v>>

\* float('nan') and int share the comparison operators
NaN == [nan |-> TRUE, val |-> 0]

Num(i) == [nan |-> FALSE, val |-> i]

\* a < b on Python numbers: every comparison with nan is False
lt(a, b) == ~a.nan /\ ~b.nan /\ a.val < b.val

gt(a, b) == ~a.nan /\ ~b.nan /\ a.val > b.val

Digits == {"0", "1", "2", "3", "4", "5", "6", "7", "8", "9"}

DigitVal ==
    "0" :> 0 @@ "1" :> 1 @@ "2" :> 2 @@ "3" :> 3 @@ "4" :> 4 @@
    "5" :> 5 @@ "6" :> 6 @@ "7" :> 7 @@ "8" :> 8 @@ "9" :> 9

DigitChar == <<"0", "1", "2", "3", "4", "5", "6", "7", "8", "9">>

RECURSIVE DigitsValue(_)
DigitsValue(ds) ==
    IF ds = <<>> THEN 0
    ELSE 10 * DigitsValue(SubSeq(ds, 1, Len(ds) - 1)) + DigitVal[ds[Len(ds)]]

AllDigits(ds) == Len(ds) > 0 /\ \A i \in 1..Len(ds) : ds[i] \in Digits

\* int(n) succeeds on an optional sign followed by one or more digits
IsIntLiteral(n) ==
    IF Len(n) > 0 /\ n[1] = "-" THEN AllDigits(Tail(n)) ELSE AllDigits(n)

int(n) ==
    IF n[1] = "-" THEN 0 - DigitsValue(Tail(n)) ELSE DigitsValue(n)

RECURSIVE NatToStr(_)
NatToStr(i) ==
    IF i < 10 THEN <<DigitChar[i + 1]>>
    ELSE NatToStr(i \div 10) \o <<DigitChar[(i % 10) + 1]>>

\* str() of a Python number
strNum(x) ==
    IF x.nan THEN <<"n", "a", "n">>
    ELSE IF x.val < 0 THEN <<"-">> \o NatToStr(0 - x.val)
    ELSE NatToStr(x.val)

\* str() of a value that is a string or None
strOpt(o) == IF o = None THEN <<"N", "o", "n", "e">> ELSE o[1]

\* str.lower() on the product names of the model
lower(s) ==
    CASE s = "Ice Cream" -> "ice cream"
      [] s = "Vanilla" -> "vanilla"
      [] OTHER -> s

----------------------------------------------------------------------------
(* Helper functions *)

RECURSIVE join(_, _)
\* sep.join(li): the pieces of the resulting string
join(sep, li) ==
    IF Len(li) = 0 THEN <<>>
    ELSE IF Len(li) = 1 THEN <<li[1]>>
    ELSE join(sep, SubSeq(li, 1, Len(li) - 1)) \o <<sep, li[Len(li)]>>

\* the last separator piece of a joined string is replaced
rreplace(s, old, new, occurrence) ==
    IF occurrence >= 1 /\ Len(s) >= 3 /\ s[Len(s) - 1] = old
    THEN [s EXCEPT ![Len(s) - 1] = new]
    ELSE s

parse_int(n) == IF IsIntLiteral(n) THEN Num(int(n)) ELSE NaN

convert_string_array_to_string(stringArray) ==
    rreplace(join(", ", stringArray), ", ", " and ", 1)

----------------------------------------------------------------------------
(* Generic functions used to simplify interaction with Amazon Lex *)

get_slots(intent_request) == intent_request.currentIntent.slots

elicit_slot(session_attributes, intent_name, slots, slot_to_elicit, message) ==
    [sessionAttributes |-> session_attributes,
     dialogAction |-> [type |-> "ElicitSlot",
                       intentName |-> intent_name,
                       slots |-> slots,
                       slotToElicit |-> slot_to_elicit,
                       message |-> message]]

close(session_attributes, fulfillment_state, message) ==
    [sessionAttributes |-> session_attributes,
     dialogAction |-> [type |-> "Close",
                       fulfillmentState |-> fulfillment_state,
                       message |-> message]]

delegate_dropping_quantity(session_attributes, slots) ==
    [sessionAttributes |-> session_attributes,
     dialogAction |-> [type |-> "Delegate",
                       slots |-> [s \in DOMAIN slots |->
                                    IF s = "orderQuantity" THEN None
                                    ELSE slots[s]]]]

delegate(session_attributes, slots) ==
    [sessionAttributes |-> session_attributes,
     dialogAction |-> [type |-> "Delegate",
                       slots |-> slots]]

build_validation_result(is_valid, violated_slot, message_content) ==
    IF message_content = None
    THEN [isValid |-> is_valid, violatedSlot |-> violated_slot]
    ELSE [isValid |-> is_valid, violatedSlot |-> violated_slot,
          message |-> [contentType |-> "PlainText",
                       content |-> message_content[1]]]

PlainText(content) == [contentType |-> "PlainText", content |-> content]

----------------------------------------------------------------------------
(* The tables *)

\* The product table, in the order the index returns its items.  The second
\* item duplicates the key of the first; the third stores its flavour
\* capitalised.
Catalog ==
    << [productId |-> <<"7">>, productType |-> "ice cream",
        productFlavor |-> "vanilla"],
       [productId |-> <<"8">>, productType |-> "ice cream",
        productFlavor |-> "vanilla"],
       [productId |-> <<"1", "2">>, productType |-> "ice cream",
        productFlavor |-> "Ice Cream"] >>

\* dynamodb.query on productType-productFlavor-index with the key condition
\* productType = :productTypeSel: the matching items, in index order
query_type(productTypeSel) ==
    SelectSeq(Catalog,
              LAMBDA item : /\ productTypeSel # None
                            /\ item.productType = productTypeSel[1])

\* the same query with the key condition
\* productType = :productTypeSel AND productFlavor = :productFlavorSel
query_type_flavor(productTypeSel, productFlavorSel) ==
    SelectSeq(Catalog,
              LAMBDA item : /\ productTypeSel # None
                            /\ item.productType = productTypeSel[1]
                            /\ productFlavorSel # None
                            /\ item.productFlavor = productFlavorSel[1])

\* dynamodb.put_item: the item replaces any item with the same key
put_item(table, item) ==
    {o \in table : o.orderId # item.orderId} \cup {item}

uuid4_constant(n) == 1

\* uuid.uuid4(): the identifier after n have been generated
uuid4(n) == n + 1

----------------------------------------------------------------------------
(* Functions that interact with other services (backend functions) *)

get_product_types == <<"ice cream", "frozen yogurt">>

get_product_flavors(productType) ==
    LET productTypeFlavors == query_type(productType)
    IN  [i \in 1..Len(productTypeFlavors) |->
            lower(productTypeFlavors[i].productFlavor)]

get_product_id_zero_on_miss(productType, productFlavor) ==
    LET productDetails == query_type_flavor(productType, productFlavor)
    IN  IF Len(productDetails) # 0
        THEN Some(parse_int(productDetails[1].productId))
        ELSE Some(Num(0))

get_product_id(productType, productFlavor) ==
    LET productDetails == query_type_flavor(productType, productFlavor)
    IN  IF Len(productDetails) # 0
        THEN Some(parse_int(productDetails[1].productId))
        ELSE None

InSeq(x, s) == \E i \in 1..Len(s) : s[i] = x

validate_product_type(productType) ==
    IF productType # None /\ ~InSeq(lower(productType[1]), get_product_types)
    THEN build_validation_result(FALSE, Some("productType"),
            Some(<<"We do not have {}, please select one of the following products. We offer:  {}",
                   productType,
                   convert_string_array_to_string(get_product_types)>>))
    ELSE build_validation_result(TRUE, None, None)

validate_product_flavor_accept_all(productType, productFlavor) ==
    build_validation_result(TRUE, None, None)

validate_product_flavor(productType, productFlavor) ==
    IF /\ productFlavor # None
       /\ ~InSeq(lower(productFlavor[1]), get_product_flavors(productType))
    THEN build_validation_result(FALSE, Some("productFlavor"),
            Some(<<"We do not have {} {}, please select one of the following {} flavors.  {}",
                   productFlavor, productType, productType,
                   convert_string_array_to_string(
                       get_product_flavors(productType))>>))
    ELSE build_validation_result(TRUE, None, None)

MinQuantityMessage ==
    <<"Sorry but the minimum order quantity is 5 cups. How many would you like to order?">>

MaxQuantityMessage ==
    <<"Sorry but the maximum order quantity for online orders is 30. Please contact us directly for larger quantity orders. How many cups would you like to order instead?">>

validate_order_quantity(orderQuantity) ==
    IF orderQuantity # None /\ lt(parse_int(orderQuantity[1]), Num(5))
    THEN build_validation_result(FALSE, Some("orderQuantity"),
                                 Some(MinQuantityMessage))
    ELSE IF orderQuantity # None /\ gt(parse_int(orderQuantity[1]), Num(30))
    THEN build_validation_result(FALSE, Some("orderQuantity"),
                                 Some(MaxQuantityMessage))
    ELSE build_validation_result(TRUE, None, None)

placeOrder_fixed_quantity(orderId, userId, productId, orderQuantity) ==
    [orderId |-> orderId,
     userId |-> userId,
     productId |-> strNum(productId),
     orderQuantity |-> <<"5">>]

\* the item placeOrder puts into the order table, orderId being the
\* identifier it generated
placeOrder(orderId, userId, productId, orderQuantity) ==
    [orderId |-> orderId,
     userId |-> userId,
     productId |-> strNum(productId),
     orderQuantity |-> strOpt(orderQuantity)]

----------------------------------------------------------------------------
(* The calls an invocation makes, as recorded in calls *)

\* validate_product_flavor queries the flavours only of a filled slot
validate_product_flavor_calls(productType, productFlavor) ==
    <<<<"validate_product_flavor", productType, productFlavor>>>> \o
    (IF productFlavor # None
     THEN <<<<"query", "get_product_flavors", productType>>>>
     ELSE <<>>)

\* what a handler did: the response it returned, the calls it made and the
\* items it put into the order table
Turn(resp, made, puts) ==
    [raised |-> FALSE, response |-> resp, calls |-> made, puts |-> puts]

NoResponse == [sessionAttributes |-> None, dialogAction |-> [type |-> "None"]]

\* an exception leaves lambda_handler: there is no response
Raise(made) ==
    [raised |-> TRUE, response |-> NoResponse, calls |-> made, puts |-> <<>>]

----------------------------------------------------------------------------
(* Functions that control the bot's behavior (bot intent handler) *)

keep_slot(slots, name) == slots

\* slots[violatedSlot] = None
clear_slot(slots, name) == [slots EXCEPT ![name] = None]

repair_never(slots) == slots

\* the flavour is copied into an empty productType slot
repair(slots) ==
    IF slots.productType = None /\ slots.productFlavor # None
    THEN [slots EXCEPT !.productType = slots.productFlavor]
    ELSE slots

i_product_flavor(intent_request) ==
    LET source == intent_request.invocationSource
        slots == get_slots(intent_request)
        entered == <<<<"i_product_flavor">>>>
        productTypeVal == validate_product_type(slots.productType)
        validated == entered \o <<<<"validate_product_type", slots.productType>>>>
        output_session_attributes ==
            IF intent_request.sessionAttributes # None
            THEN intent_request.sessionAttributes
            ELSE Some({})
        productFlavorsList ==
            convert_string_array_to_string(get_product_flavors(slots.productType))
    IN  IF source = "DialogCodeHook"
        THEN IF ~productTypeVal.isValid
             THEN Turn(elicit_slot(intent_request.sessionAttributes,
                                   intent_request.currentIntent.name,
                                   clear_slot(slots, productTypeVal.violatedSlot[1]),
                                   productTypeVal.violatedSlot[1],
                                   productTypeVal.message),
                       validated, <<>>)
             ELSE Turn(delegate(output_session_attributes, slots),
                       validated, <<>>)
        ELSE Turn(close(intent_request.sessionAttributes, "Fulfilled",
                        PlainText(<<"Our {} offering consists of the following flavors: {}.",
                                    slots.productType, productFlavorsList>>)),
                  entered \o <<<<"query", "get_product_flavors", slots.productType>>>>,
                  <<>>)

\* the validation branch of i_order_product
i_order_product_validation(intent_request) ==
    LET slots == repair(get_slots(intent_request))
        entered == <<<<"i_order_product">>>>
        productTypeVal == validate_product_type(slots.productType)
        afterType == entered \o <<<<"validate_product_type", slots.productType>>>>
        checkFlavor == slots.productType # None
        productFlavorVal ==
            validate_product_flavor(slots.productType, slots.productFlavor)
        afterFlavor ==
            IF checkFlavor
            THEN afterType \o
                 validate_product_flavor_calls(slots.productType, slots.productFlavor)
            ELSE afterType
        orderQuantityVal == validate_order_quantity(slots.orderQuantity)
        afterQuantity ==
            afterFlavor \o <<<<"validate_order_quantity", slots.orderQuantity>>>>
        output_session_attributes ==
            IF intent_request.sessionAttributes # None
            THEN intent_request.sessionAttributes
            ELSE Some({})
    IN  IF ~productTypeVal.isValid
        THEN Turn(elicit_slot(intent_request.sessionAttributes,
                              intent_request.currentIntent.name,
                              clear_slot(slots, productTypeVal.violatedSlot[1]),
                              productTypeVal.violatedSlot[1],
                              productTypeVal.message),
                  afterType, <<>>)
        ELSE IF checkFlavor /\ ~productFlavorVal.isValid
        THEN Turn(elicit_slot(intent_request.sessionAttributes,
                              intent_request.currentIntent.name,
                              clear_slot(slots, productFlavorVal.violatedSlot[1]),
                              productFlavorVal.violatedSlot[1],
                              productFlavorVal.message),
                  afterFlavor, <<>>)
        ELSE IF ~orderQuantityVal.isValid
        THEN Turn(elicit_slot(intent_request.sessionAttributes,
                              intent_request.currentIntent.name,
                              clear_slot(slots, orderQuantityVal.violatedSlot[1]),
                              orderQuantityVal.violatedSlot[1],
                              orderQuantityVal.message),
                  afterQuantity, <<>>)
        ELSE Turn(delegate(output_session_attributes, slots),
                  afterQuantity, <<>>)

\* the fulfilment branch of i_order_product; n identifiers have been
\* generated before
i_order_product_fulfillment(intent_request, n) ==
    LET slots == get_slots(intent_request)
        userId == IF intent_request.userId # None
                  THEN intent_request.userId[1] ELSE "0"
        entered == <<<<"i_order_product">>>>
        productId == get_product_id(slots.productType, slots.productFlavor)
        lookedUp ==
            entered \o
            <<<<"query", "get_product_id", slots.productType, slots.productFlavor>>>>
        orderId == uuid4(n)
        item == placeOrder(orderId, userId, productId[1], slots.orderQuantity)
    IN  IF productId = None
        THEN Turn(close(intent_request.sessionAttributes, "Fulfilled",
                        PlainText(<<"Sorry your order of {} cups of {} {} has not been placed due to a system error. Please try it again later or contact us via info@reInvent.bootcamp.",
                                    slots.orderQuantity, slots.productFlavor,
                                    slots.productType>>)),
                  lookedUp, <<>>)
        ELSE Turn(close(intent_request.sessionAttributes, "Fulfilled",
                        PlainText(<<"Thank you for ordering through reInvent bootcamp bot. You order of {} cups of {} {} has been placed and will be processed immediately (Order ID: {}). Can I help you with anything else?",
                                    slots.orderQuantity, slots.productFlavor,
                                    slots.productType, orderId>>)),
                  lookedUp \o <<<<"put_item", item>>>>,
                  <<item>>)

i_order_product(intent_request, n) ==
    IF intent_request.invocationSource = "DialogCodeHook"
    THEN i_order_product_validation(intent_request)
    ELSE i_order_product_fulfillment(intent_request, n)

i_help(intent_request) ==
    Turn(close(intent_request.sessionAttributes, "Fulfilled",
               PlainText(<<"Hi this is lex, your personal assistant. - Would you like to order something? - or should I show you a list of available flavors for one of our products?">>)),
         <<<<"i_help">>>>, <<>>)

----------------------------------------------------------------------------
(* Dispatch intents *)

dispatch_help_by_default(intent_request, n) ==
    LET intent_name == intent_request.currentIntent.name
    IN  IF intent_name = "GetProductFlavor" THEN i_product_flavor(intent_request)
        ELSE IF intent_name = "OrderProduct" THEN i_order_product(intent_request, n)
        ELSE i_help(intent_request)

dispatch(intent_request, n) ==
    LET intent_name == intent_request.currentIntent.name
    IN  IF intent_name = "GetProductFlavor" THEN i_product_flavor(intent_request)
        ELSE IF intent_name = "OrderProduct" THEN i_order_product(intent_request, n)
        ELSE IF intent_name = "Help" THEN i_help(intent_request)
        ELSE Raise(<<>>)

----------------------------------------------------------------------------
(* The events Lex sends *)

SourceValues == {"DialogCodeHook", "FulfillmentCodeHook"}

IntentNames == {"GetProductFlavor", "OrderProduct", "Help", "help", "Unsupported"}

SessionValues == {None, Some({}), Some({<<"lastIntent", "Help">>})}

UserIds == {None, Some("u1")}

TypeValues == {None, Some("ice cream"), Some("Ice Cream"), Some("cake")}

FlavorValues == {None, Some("vanilla"), Some("Vanilla"), Some("ice cream")}

QuantityValues == {None, Some(<<"4">>), Some(<<"5">>), Some(<<"a">>)}

\* the slots Lex sends are the slots of the intent
SlotsOf(name) ==
    IF name = "OrderProduct"
    THEN [productType : TypeValues, productFlavor : FlavorValues,
          orderQuantity : QuantityValues]
    ELSE IF name = "GetProductFlavor"
    THEN [productType : TypeValues]
    ELSE {<<>>}

Events ==
    UNION {[invocationSource : SourceValues,
            currentIntent : [name : {name}, slots : SlotsOf(name)],
            sessionAttributes : SessionValues,
            userId : UserIds] : name \in IntentNames}

NoEvent ==
    [invocationSource |-> "", currentIntent |-> [name |-> "", slots |-> <<>>],
     sessionAttributes |-> None, userId |-> None]

\* the strings validate_order_quantity is called with on its own
QtyChars == {"0", "1", "3", "4", "5", "-", "a"}

QuantityStrings == UNION {[1..n -> QtyChars] : n \in 1..MaxQtyLen}

----------------------------------------------------------------------------
(* Main handler *)

Init ==
    /\ orders = {}
    /\ drawn = 0
    /\ status = "idle"
    /\ event = NoEvent
    /\ response = NoResponse
    /\ calls = <<>>
    /\ qIn = None
    /\ qOut = None

RECURSIVE put_all(_, _)
put_all(table, items) ==
    IF items = <<>> THEN table
    ELSE put_all(put_item(table, Head(items)), Tail(items))

\* one invocation of the Lambda function
lambda_handler(ev) ==
    LET turn == dispatch(ev, drawn)
    IN  /\ status = "idle"
        /\ Len(turn.puts) > 0 => drawn < MaxOrders
        /\ event' = ev
        /\ status' = IF turn.raised THEN "raised" ELSE "returned"
        /\ response' = turn.response
        /\ calls' = turn.calls
        /\ orders' = put_all(orders, turn.puts)
        /\ drawn' = drawn + Len(turn.puts)
        /\ UNCHANGED <<qIn, qOut>>

\* the invocation is over; nothing but the order table outlives it
Complete ==
    /\ status # "idle"
    /\ status' = "idle"
    /\ event' = NoEvent
    /\ response' = NoResponse
    /\ calls' = <<>>
    /\ UNCHANGED <<orders, drawn, qIn, qOut>>

Next ==
    \/ \E ev \in Events : lambda_handler(ev)
    \/ Complete

Spec == Init /\ [][Next]_vars

----------------------------------------------------------------------------
(* validate_order_quantity on its own *)

InitQty ==
    /\ orders = {}
    /\ drawn = 0
    /\ status = "idle"
    /\ event = NoEvent
    /\ response = NoResponse
    /\ calls = <<>>
    /\ qIn \in {None} \cup {Some(q) : q \in QuantityStrings}
    /\ qOut = None

ValidateQuantity ==
    /\ qOut = None
    /\ qOut' = Some(validate_order_quantity(qIn))
    /\ UNCHANGED <<orders, drawn, status, event, response, calls, qIn>>

NextQty == ValidateQuantity

SpecQty == InitQty /\ [][NextQty]_vars

----------------------------------------------------------------------------
(* Vocabulary of the properties *)

Invoked == status = "idle" /\ status' # "idle"

Validating(ev) == ev.invocationSource = "DialogCodeHook"

OrderTurn(ev) == ev.currentIntent.name = "OrderProduct"

FlavorTurn(ev) == ev.currentIntent.name = "GetProductFlavor"

CatalogHas(productType, productFlavor) ==
    /\ productType # None
    /\ productFlavor # None
    /\ \E i \in 1..Len(Catalog) :
          /\ Catalog[i].productType = productType[1]
          /\ Catalog[i].productFlavor = productFlavor[1]

\* the first catalog entry with the type and the flavour
FirstMatch(productType, productFlavor) ==
    Catalog[CHOOSE i \in 1..Len(Catalog) :
              /\ Catalog[i].productType = productType[1]
              /\ Catalog[i].productFlavor = productFlavor[1]
              /\ \A j \in 1..(i - 1) :
                    \/ Catalog[j].productType # productType[1]
                    \/ Catalog[j].productFlavor # productFlavor[1]]

LookupHit(ev) ==
    CatalogHas(ev.currentIntent.slots.productType,
               ev.currentIntent.slots.productFlavor)

Made(log, kind) == \E i \in 1..Len(log) : log[i][1] = kind

IsClose(resp) == resp.dialogAction.type = "Close"

IsDelegate(resp) == resp.dialogAction.type = "Delegate"

IsElicit(resp) == resp.dialogAction.type = "ElicitSlot"

IsApology(resp) ==
    /\ IsClose(resp)
    /\ resp.dialogAction.message.content[1] =
          "Sorry your order of {} cups of {} {} has not been placed due to a system error. Please try it again later or contact us via info@reInvent.bootcamp."

IsConfirmation(resp) ==
    /\ IsClose(resp)
    /\ resp.dialogAction.message.content[1] =
          "Thank you for ordering through reInvent bootcamp bot. You order of {} cups of {} {} has been placed and will be processed immediately (Order ID: {}). Can I help you with anything else?"

\* the slots of an OrderProduct turn after the input repair
RepairedSlots(slots) ==
    IF slots.productType = None /\ slots.productFlavor # None
    THEN [slots EXCEPT !.productType = slots.productFlavor]
    ELSE slots

\* the rule of the product types
TypeViolation(productType) ==
    /\ productType # None
    /\ lower(productType[1]) \notin {"ice cream", "frozen yogurt"}

\* the rule of the flavours of a type
FlavorViolation(productType, productFlavor) ==
    /\ productFlavor # None
    /\ ~\E i \in 1..Len(Catalog) :
          /\ productType # None
          /\ Catalog[i].productType = productType[1]
          /\ lower(Catalog[i].productFlavor) = lower(productFlavor[1])

----------------------------------------------------------------------------
(* C1 *)

\* C1: a fulfilling OrderProduct turn whose type and flavour match no catalog
\* entry returns Close with the system-error apology, makes no put_item call
\* and leaves the order table as it was.
C1_LookupMissClosesWithoutWrite ==
    [][(Invoked /\ OrderTurn(event') /\ ~Validating(event') /\ ~LookupHit(event'))
        => /\ status' = "returned"
           /\ IsApology(response')
           /\ ~Made(calls', "put_item")
           /\ orders' = orders]_vars

\* a validated flavour whose capitalisation the catalog does not have is
\* missed while the order table holds an order
C1_Witness ==
    /\ status = "returned"
    /\ OrderTurn(event) /\ ~Validating(event) /\ ~LookupHit(event)
    /\ event.currentIntent.slots.productType = Some("ice cream")
    /\ event.currentIntent.slots.productFlavor = Some("Vanilla")
    /\ IsApology(response)
    /\ orders # {}

----------------------------------------------------------------------------
(* C2 *)

\* C2: in a fulfilling OrderProduct turn a put_item call is made only after
\* the product lookup of the turn, and only when that lookup found an entry;
\* the item written carries the identifier of the first matching entry and
\* the quantity of the turn, it is in the order table, and the Close message
\* embeds the item's order identifier.
C2_WriteFollowsLookup ==
    (status = "returned" /\ OrderTurn(event) /\ ~Validating(event)
        /\ Made(calls, "put_item"))
    => LET slots == event.currentIntent.slots
           item == calls[3][2]
       IN  /\ Len(calls) = 3
           /\ calls[2] = <<"query", "get_product_id", slots.productType,
                           slots.productFlavor>>
           /\ calls[3][1] = "put_item"
           /\ LookupHit(event)
           /\ item.productId =
                 FirstMatch(slots.productType, slots.productFlavor).productId
           /\ item.orderQuantity = strOpt(slots.orderQuantity)
           /\ item \in orders
           /\ IsConfirmation(response)
           /\ response.dialogAction.message.content[5] = item.orderId
           /\ response.dialogAction.message.content[2] = slots.orderQuantity

C2_Witness ==
    /\ status = "returned"
    /\ OrderTurn(event) /\ ~Validating(event)
    /\ Made(calls, "put_item")
    /\ event.currentIntent.slots.orderQuantity = Some(<<"4">>)
    /\ calls[3][2].productId = <<"7">>
    /\ calls[3][2].orderQuantity = <<"4">>
    /\ IsConfirmation(response)

----------------------------------------------------------------------------
(* C3 *)

OrderIds(table) == {o.orderId : o \in table}

\* C3: every fulfilling OrderProduct turn whose lookup finds an entry adds
\* exactly one item, with an identifier no item had, and keeps every item
\* that was there; every other step leaves the order table as it was; no two
\* items share an identifier.
C3_OneOrderPerFulfilment ==
    /\ [](Cardinality(OrderIds(orders)) = Cardinality(orders))
    /\ [][IF Invoked /\ OrderTurn(event') /\ ~Validating(event') /\ LookupHit(event')
          THEN /\ orders \subseteq orders'
               /\ Cardinality(orders') = Cardinality(orders) + 1
               /\ \A o \in orders' \ orders : o.orderId \notin OrderIds(orders)
          ELSE orders' = orders]_vars

\* two turns with the same inputs have left two items that differ in their
\* identifiers only
C3_Witness ==
    \E a, b \in orders :
        /\ a.orderId # b.orderId
        /\ a.userId = b.userId
        /\ a.productId = b.productId
        /\ a.orderQuantity = b.orderQuantity

----------------------------------------------------------------------------
(* C4 *)

\* C4: in every ElicitSlot response the slot named by slotToElicit is a slot
\* of the returned mapping and its value is null.
C4_ElicitedSlotIsNull ==
    (status = "returned" /\ IsElicit(response))
    => /\ response.dialogAction.slotToElicit \in DOMAIN response.dialogAction.slots
       /\ response.dialogAction.slots[response.dialogAction.slotToElicit] = None

\* the rejected flavour was filled in the event and is null in the response
C4_Witness ==
    /\ status = "returned"
    /\ OrderTurn(event)
    /\ IsElicit(response)
    /\ response.dialogAction.slotToElicit = "productFlavor"
    /\ event.currentIntent.slots.productFlavor = Some("vanilla")
    /\ response.dialogAction.slots.productFlavor = None

----------------------------------------------------------------------------
(* C5 *)

QuantityInRange(orderQuantity) ==
    /\ IsIntLiteral(orderQuantity[1])
    /\ int(orderQuantity[1]) >= 5
    /\ int(orderQuantity[1]) <= 30

\* C5: validate_order_quantity reports valid exactly when the slot is absent
\* or its value parses to an integer in [5, 30]; every other value is
\* reported invalid with violatedSlot = orderQuantity, with the minimum
\* message for a parsed value below 5 and the maximum message for a parsed
\* value above 30.
C5_ValidExactlyInRange ==
    qOut # None
    => LET result == qOut[1]
           accepted == qIn = None \/ QuantityInRange(qIn)
       IN  /\ result.isValid <=> accepted
           /\ ~accepted => result.violatedSlot = Some("orderQuantity")
           /\ (qIn # None /\ IsIntLiteral(qIn[1]) /\ int(qIn[1]) < 5)
                 => result.message.content = MinQuantityMessage
           /\ (qIn # None /\ IsIntLiteral(qIn[1]) /\ int(qIn[1]) > 30)
                 => result.message.content = MaxQuantityMessage

----------------------------------------------------------------------------
(* C6 *)

\* C6: the sessionAttributes of every response are the sessionAttributes of
\* the event, the empty mapping standing for a null.
C6_SessionAttributesPassThrough ==
    status = "returned"
    => response.sessionAttributes =
          (IF event.sessionAttributes = None THEN Some({})
           ELSE event.sessionAttributes)

----------------------------------------------------------------------------
(* C7 *)

SupportedIntents == {"GetProductFlavor", "OrderProduct", "Help"}

\* C7: an invocation whose intent name is none of GetProductFlavor,
\* OrderProduct and Help raises: there is no response, no handler, validator
\* or store call is made and the order table is as it was.
C7_UnsupportedIntentRaises ==
    [][(Invoked /\ event'.currentIntent.name \notin SupportedIntents)
        => /\ status' = "raised"
           /\ response' = NoResponse
           /\ calls' = <<>>
           /\ orders' = orders]_vars

\* the name of a supported intent in another case is not supported, in
\* either invocation source
C7_Witness ==
    /\ status = "raised"
    /\ event.currentIntent.name = "help"
    /\ event.invocationSource = "FulfillmentCodeHook"
    /\ calls = <<>>
    /\ orders # {}

----------------------------------------------------------------------------
(* C8 *)

\* C8: a validating OrderProduct turn checks productType, then productFlavor
\* if productType is present after the repair, then orderQuantity, and stops
\* at the first violation: the calls made are exactly the checks up to that
\* violation, and the slot elicited is the violated one.
C8_ValidatorsInOrder ==
    (status = "returned" /\ OrderTurn(event) /\ Validating(event))
    => LET slots == RepairedSlots(event.currentIntent.slots)
           typeBad == TypeViolation(slots.productType)
           flavorRun == ~typeBad /\ slots.productType # None
           flavorBad == flavorRun /\ FlavorViolation(slots.productType,
                                                     slots.productFlavor)
           quantityRun == ~typeBad /\ ~flavorBad
           quantityBad == quantityRun /\
                          ~validate_order_quantity(slots.orderQuantity).isValid
           expected ==
               << <<"i_order_product">>,
                  <<"validate_product_type", slots.productType>> >>
               \o (IF flavorRun
                   THEN << <<"validate_product_flavor", slots.productType,
                             slots.productFlavor>> >>
                   ELSE <<>>)
               \o (IF flavorRun /\ slots.productFlavor # None
                   THEN << <<"query", "get_product_flavors", slots.productType>> >>
                   ELSE <<>>)
               \o (IF quantityRun
                   THEN << <<"validate_order_quantity", slots.orderQuantity>> >>
                   ELSE <<>>)
       IN  /\ calls = expected
           /\ typeBad => (IsElicit(response) /\
                          response.dialogAction.slotToElicit = "productType")
           /\ flavorBad => (IsElicit(response) /\
                            response.dialogAction.slotToElicit = "productFlavor")
           /\ quantityBad => (IsElicit(response) /\
                              response.dialogAction.slotToElicit = "orderQuantity")
           /\ (~typeBad /\ ~flavorBad /\ ~quantityBad) => IsDelegate(response)

\* a bad flavour and a bad quantity: the flavour is elicited and the
\* quantity is not checked
C8_Witness ==
    /\ status = "returned"
    /\ OrderTurn(event) /\ Validating(event)
    /\ event.currentIntent.slots.productType = Some("Ice Cream")
    /\ event.currentIntent.slots.productFlavor = Some("vanilla")
    /\ event.currentIntent.slots.orderQuantity = Some(<<"4">>)
    /\ IsElicit(response)
    /\ response.dialogAction.slotToElicit = "productFlavor"
    /\ ~Made(calls, "validate_order_quantity")

----------------------------------------------------------------------------
(* C9 *)

\* C9: a validating OrderProduct turn with productType absent and
\* productFlavor = v answers and calls as the same turn with productType = v
\* does: the product-type validator checks v, the flavour validator is given
\* v as type and as flavour, a Delegate carries productType = v, and
\* productFlavor is v in the response unless it is the slot elicited.  When
\* productType is filled or productFlavor is absent, the validator checks the
\* productType of the event and the slots of the response are those of the
\* event, the elicited one cleared.
C9_RepairActsAsFilledType ==
    (status = "returned" /\ OrderTurn(event) /\ Validating(event))
    => LET slots == event.currentIntent.slots
           v == slots.productFlavor
           twin == [event EXCEPT !.currentIntent.slots.productType = v]
           out == response.dialogAction.slots
       IN  IF slots.productType = None /\ v # None
           THEN /\ response = dispatch(twin, drawn).response
                /\ calls = dispatch(twin, drawn).calls
                /\ calls[2] = <<"validate_product_type", v>>
                /\ Made(calls, "validate_product_flavor")
                      => calls[3] = <<"validate_product_flavor", v, v>>
                /\ IsDelegate(response) => out.productType = v
                /\ \/ out.productFlavor = v
                   \/ IsElicit(response) /\
                      response.dialogAction.slotToElicit = "productFlavor"
           ELSE /\ calls[2] = <<"validate_product_type", slots.productType>>
                /\ IsDelegate(response) => out = slots
                /\ IsElicit(response)
                      => out = [slots EXCEPT
                                  ![response.dialogAction.slotToElicit] = None]

\* the flavour slot held a product type: it is copied and the turn delegates
C9_Witness ==
    /\ status = "returned"
    /\ OrderTurn(event) /\ Validating(event)
    /\ event.currentIntent.slots.productType = None
    /\ event.currentIntent.slots.productFlavor = Some("ice cream")
    /\ IsDelegate(response)
    /\ response.dialogAction.slots.productType = Some("ice cream")
    /\ response.dialogAction.slots.productFlavor = Some("ice cream")

----------------------------------------------------------------------------
(* C10 *)

\* none of the validators of the intent reports a violation
NoViolation(ev) ==
    LET slots == ev.currentIntent.slots
        repaired == RepairedSlots(slots)
    IN  IF FlavorTurn(ev)
        THEN validate_product_type(slots.productType).isValid
        ELSE /\ validate_product_type(repaired.productType).isValid
             /\ repaired.productType # None
                   => validate_product_flavor(repaired.productType,
                                              repaired.productFlavor).isValid
             /\ validate_order_quantity(repaired.orderQuantity).isValid

\* C10: a validating GetProductFlavor or OrderProduct turn returns Delegate
\* exactly when no validator of the intent reports a violation, and ElicitSlot
\* otherwise; a turn whose slots are all absent delegates; the slots of a
\* Delegate are those of the event, for OrderProduct after the repair copy.
C10_DelegateWhenAllValid ==
    (status = "returned" /\ Validating(event)
        /\ (OrderTurn(event) \/ FlavorTurn(event)))
    => LET slots == event.currentIntent.slots
       IN  /\ IsDelegate(response) <=> NoViolation(event)
           /\ ~IsDelegate(response) => IsElicit(response)
           /\ (\A name \in DOMAIN slots : slots[name] = None)
                 => IsDelegate(response)
           /\ IsDelegate(response)
                 => response.dialogAction.slots =
                       (IF OrderTurn(event) THEN RepairedSlots(slots) ELSE slots)

\* a turn with all three slots filled and valid delegates with the slots
\* it was sent
C10_Witness ==
    /\ status = "returned"
    /\ OrderTurn(event) /\ Validating(event)
    /\ event.currentIntent.slots.productType = Some("ice cream")
    /\ event.currentIntent.slots.productFlavor = Some("Vanilla")
    /\ event.currentIntent.slots.orderQuantity = Some(<<"5">>)
    /\ IsDelegate(response)
    /\ response.dialogAction.slots = event.currentIntent.slots

=============================================================================
